---- MODULE Spec2Model ----
(***************************************************************************)
(* A model of the POS order-entry page, src/src/app/page.jsx.              *)
(*                                                                         *)
(* The page is one React component, POSApp, with four pieces of state      *)
(* (code, name, price, cart), one derived value computed at every render   *)
(* (total), one click handler (handleAdd), three onChange handlers and two *)
(* buttons that carry no handler.  Beside the component the file defines   *)
(* two API client functions, fetchProductByCode and postPurchase; no       *)
(* handler of the page calls them, so they are modelled as operations a    *)
(* caller applies to an arbitrary backend response.                        *)
(*                                                                         *)
(* JavaScript strings are sequences of one-character strings; JavaScript   *)
(* numbers are records that tell NaN from an integer.                      *)
(***************************************************************************)
EXTENDS Integers, Sequences, FiniteSets

VARIABLES
    code,       \* useState('') of line 50: the code field
    name,       \* useState('') of line 51: the name field
    price,      \* useState('') of line 52: the price field, a string
    cart,       \* useState([]) of line 53: sequence of {code, name, price, qty}
    total,      \* the value line 54 computed at the last render
    lastEvent,  \* the event handler of the page that ran last
    addCount,   \* history: per code, the handleAdd calls that passed line 57
    firstAdded, \* history: the codes in the order of their first such call
    purchase,   \* the postPurchase call: its position and how it settled
    lookup      \* the fetchProductByCode call: its argument, response, outcome

vars ==
    <<code, name, price, cart, total, lastEvent, addCount, firstAdded,
      purchase, lookup>>

---------------------------------------------------------------------------
(* Bounds of the model *)

\* handleAdd calls that pass the guard, per behaviour
MaxAdds == 4

---------------------------------------------------------------------------
(* JavaScript values *)

EmptyStr == <<>>

Num(n) == [nan |-> FALSE, v |-> n]

NaN == [nan |-> TRUE, v |-> 0]

\* a + b on numbers
JsAdd(a, b) == IF a.nan \/ b.nan THEN NaN ELSE Num(a.v + b.v)

\* a * b on numbers
JsMul(a, b) == IF a.nan \/ b.nan THEN NaN ELSE Num(a.v * b.v)

\* !s for a string s: only the empty string is falsy
Falsy(s) == Len(s) = 0

Radix == 10

IsDigit(ch) == ch \in {"0", "1", "2", "3", "4", "5", "6", "7", "8", "9"}

DigitVal(ch) ==
    CASE ch = "0" -> 0 [] ch = "1" -> 1 [] ch = "2" -> 2 [] ch = "3" -> 3
      [] ch = "4" -> 4 [] ch = "5" -> 5 [] ch = "6" -> 6 [] ch = "7" -> 7
      [] ch = "8" -> 8 [] ch = "9" -> 9

RECURSIVE SkipSpace(_)
SkipSpace(s) ==
    IF Len(s) > 0 /\ Head(s) = " " THEN SkipSpace(Tail(s)) ELSE s

RECURSIVE DigitRun(_, _)
DigitRun(s, acc) ==
    IF Len(s) > 0 /\ IsDigit(Head(s))
    THEN DigitRun(Tail(s), acc * Radix + DigitVal(Head(s)))
    ELSE acc

\* parseInt(str, 10): leading white space, an optional sign, then the longest
\* run of digits; NaN when there is no digit; what follows the run is ignored
ParseInt(str) ==
    LET s    == SkipSpace(str)
        neg  == Len(s) > 0 /\ Head(s) = "-"
        body == IF Len(s) > 0 /\ Head(s) \in {"-", "+"} THEN Tail(s) ELSE s
    IN  IF Len(body) = 0 \/ ~IsDigit(Head(body))
        THEN NaN
        ELSE Num((IF neg THEN -1 ELSE 1) * DigitRun(body, 0))

---------------------------------------------------------------------------
(* What the operator can type *)

CodeInputs == {EmptyStr, <<"A">>}

NameInputs == {EmptyStr, <<"T", "e", "a">>, <<"M", "i", "l", "k">>}

PriceInputs == {EmptyStr, <<"2">>, <<"3", "x">>, <<"-", "1">>, <<"x">>}

---------------------------------------------------------------------------
(* The cart *)

\* cart.reduce((sum, item) => sum + item.price * item.qty, 0)
RECURSIVE Reduce(_, _, _)
Reduce(c, i, sum) ==
    IF i > Len(c) THEN sum
    ELSE Reduce(c, i + 1, JsAdd(sum, JsMul(c[i].price, Num(c[i].qty))))

\* a reduce that adds item.price and forgets item.qty
RECURSIVE ReduceIgnoringQty(_, _, _)
ReduceIgnoringQty(c, i, sum) ==
    IF i > Len(c) THEN sum
    ELSE ReduceIgnoringQty(c, i + 1, JsAdd(sum, c[i].price))

TotalIgnoringQty(c) == ReduceIgnoringQty(c, 1, Num(0))

Total(c) == Reduce(c, 1, Num(0))

\* cart.find((item) => item.code === code): the index of the first line with
\* that code, 0 when there is none
Find(c, code_) ==
    IF \E i \in 1..Len(c) : c[i].code = code_
    THEN CHOOSE i \in 1..Len(c) :
            /\ c[i].code = code_
            /\ \A j \in 1..(i - 1) : c[j].code # code_
    ELSE 0

NewLine(code_, name_, price_) ==
    [code |-> code_, name |-> name_, price |-> ParseInt(price_), qty |-> 1]

\* handleAdd without the find: every add appends
AddLineAlwaysAppends(c, code_, name_, price_) ==
    Append(c, NewLine(code_, name_, price_))

\* handleAdd whose merge adds 2
AddLineCountsTwice(c, code_, name_, price_) ==
    LET existing == Find(c, code_)
    IN  IF existing # 0
        THEN [c EXCEPT ![existing].qty = @ + 2]
        ELSE Append(c, NewLine(code_, name_, price_))

\* handleAdd whose merge moves the merged line to the end of the cart
AddLineMovesMergedLast(c, code_, name_, price_) ==
    LET existing == Find(c, code_)
    IN  IF existing # 0
        THEN Append(SubSeq(c, 1, existing - 1) \o SubSeq(c, existing + 1, Len(c)),
                    [c[existing] EXCEPT !.qty = @ + 1])
        ELSE Append(c, NewLine(code_, name_, price_))

\* handleAdd whose merge takes the name and price of the new call
AddLineRefreshesSnapshot(c, code_, name_, price_) ==
    LET existing == Find(c, code_)
    IN  IF existing # 0
        THEN [c EXCEPT ![existing] =
                 [NewLine(code_, name_, price_) EXCEPT !.qty = c[existing].qty + 1]]
        ELSE Append(c, NewLine(code_, name_, price_))

\* lines 58-64: the cart handed to setCart
AddLine(c, code_, name_, price_) ==
    LET existing == Find(c, code_)
    IN  IF existing # 0
        THEN [c EXCEPT ![existing].qty = @ + 1]
        ELSE Append(c, NewLine(code_, name_, price_))

---------------------------------------------------------------------------
(* The API clients *)

\* res.ok: the status is in the range 200-299
ResOk(status) == status \in 200..299

Null == [tag |-> "null"]

Codes == CodeInputs \ {EmptyStr}

Names == NameInputs \ {EmptyStr}

\* the bodies GET /product answers with: a product or null (lines 11-12)
Products ==
    {[tag |-> "product", prd_id |-> i, code |-> c, name |-> n, price |-> p] :
        i \in {1, 2}, c \in Codes, n \in Names, p \in {0, 150, 200}}

LookupResponses == [status : {200, 201, 404, 500}, body : Products \cup {Null}]

\* fetchProductByCode without line 30: the body is returned whatever the status
FetchOutcomeIgnoringStatus(res) == [kind |-> "return", data |-> res.body]

\* lines 30-32 of fetchProductByCode: what the call settles to on response res
FetchOutcome(res) ==
    IF ~ResOk(res.status)
    THEN [kind |-> "throw", status |-> res.status]
    ELSE [kind |-> "return", data |-> res.body]

\* the bodies POST /purchase answers with (line 18)
PurchaseBodies == [success : BOOLEAN, total_amount : {4}]

PurchaseResponses == [status : {200, 500}, body : PurchaseBodies]

\* lines 41-42 of postPurchase: what the call settles to on response res
PurchaseOutcome(res) ==
    IF ~ResOk(res.status)
    THEN [kind |-> "throw", status |-> res.status]
    ELSE [kind |-> "return", data |-> res.body]

---------------------------------------------------------------------------
(* The component *)

Init ==
    /\ code = EmptyStr
    /\ name = EmptyStr
    /\ price = EmptyStr
    /\ cart = <<>>
    /\ total = Total(<<>>)
    /\ lastEvent = "init"
    /\ addCount = [c \in CodeInputs |-> 0]
    /\ firstAdded = <<>>
    /\ purchase = [pc |-> "idle"]
    /\ lookup = [pc |-> "idle"]

\* onChange of the code field (line 79); the render that follows computes total
SetCode ==
    /\ \E v \in CodeInputs : code' = v
    /\ total' = Total(cart)
    /\ lastEvent' = "onChange"
    /\ UNCHANGED <<name, price, cart, addCount, firstAdded, purchase, lookup>>

\* onChange of the name field (line 93)
SetName ==
    /\ \E v \in NameInputs : name' = v
    /\ total' = Total(cart)
    /\ lastEvent' = "onChange"
    /\ UNCHANGED <<code, price, cart, addCount, firstAdded, purchase, lookup>>

\* onChange of the price field (line 102)
SetPrice ==
    /\ \E v \in PriceInputs : price' = v
    /\ total' = Total(cart)
    /\ lastEvent' = "onChange"
    /\ UNCHANGED <<code, name, cart, addCount, firstAdded, purchase, lookup>>

RECURSIVE SumOver(_, _)
SumOver(f, S) ==
    IF S = {} THEN 0
    ELSE LET x == CHOOSE y \in S : TRUE IN f[x] + SumOver(f, S \ {x})

\* the handleAdd calls that passed the guard so far
AddsMade == SumOver(addCount, CodeInputs)

\* handleAdd without line 66: the name field keeps its text after an add
HandleAddKeepingName ==
    /\ lastEvent' = "handleAdd"
    /\ IF Falsy(name) \/ Falsy(price)
       THEN UNCHANGED <<code, name, price, cart, total, addCount, firstAdded>>
       ELSE /\ AddsMade < MaxAdds
            /\ cart' = AddLine(cart, code, name, price)
            /\ code' = EmptyStr
            /\ name' = name
            /\ price' = EmptyStr
            /\ total' = Total(cart')
            /\ addCount' = [addCount EXCEPT ![code] = @ + 1]
            /\ firstAdded' = IF addCount[code] = 0
                             THEN Append(firstAdded, code)
                             ELSE firstAdded
    /\ UNCHANGED <<purchase, lookup>>

\* onClick of the add button: handleAdd, and the render that follows it
HandleAdd ==
    /\ lastEvent' = "handleAdd"
    /\ IF Falsy(name) \/ Falsy(price)
       THEN UNCHANGED <<code, name, price, cart, total, addCount, firstAdded>>
       ELSE /\ AddsMade < MaxAdds
            /\ cart' = AddLine(cart, code, name, price)
            /\ code' = EmptyStr
            /\ name' = EmptyStr
            /\ price' = EmptyStr
            /\ total' = Total(cart')
            /\ addCount' = [addCount EXCEPT ![code] = @ + 1]
            /\ firstAdded' = IF addCount[code] = 0
                             THEN Append(firstAdded, code)
                             ELSE firstAdded
    /\ UNCHANGED <<purchase, lookup>>

\* the lookup button (lines 83-85) has no onClick: a click runs no handler
PressLookup == UNCHANGED vars

\* the purchase button (lines 140-142) has no onClick: a click runs no handler
PressPurchase == UNCHANGED vars

\* postPurchase up to its await of fetch (lines 35-40)
PostPurchaseCall ==
    /\ purchase.pc # "awaiting"
    /\ purchase' = [pc |-> "awaiting"]
    /\ UNCHANGED <<code, name, price, cart, total, lastEvent, addCount,
                   firstAdded, lookup>>

\* a postPurchase that empties the cart when it settles, whatever the outcome
PostPurchaseSettleClearingCart ==
    /\ purchase.pc = "awaiting"
    /\ \E res \in PurchaseResponses :
          purchase' = [pc |-> "settled", outcome |-> PurchaseOutcome(res)]
    /\ cart' = <<>>
    /\ total' = Total(cart')
    /\ UNCHANGED <<code, name, price, lastEvent, addCount, firstAdded, lookup>>

\* postPurchase from the response on (lines 41-42)
PostPurchaseSettle ==
    /\ purchase.pc = "awaiting"
    /\ \E res \in PurchaseResponses :
          purchase' = [pc |-> "settled", outcome |-> PurchaseOutcome(res)]
    /\ UNCHANGED <<code, name, price, cart, total, lastEvent, addCount,
                   firstAdded, lookup>>

Next ==
    \/ SetCode \/ SetName \/ SetPrice \/ HandleAdd
    \/ PressLookup \/ PressPurchase
    \/ PostPurchaseCall \/ PostPurchaseSettle

Spec == Init /\ [][Next]_vars

---------------------------------------------------------------------------
(* fetchProductByCode applied to every code and every backend response *)

\* fetchProductByCode up to its await of fetch (lines 26-29)
FetchCall ==
    /\ lookup.pc # "awaiting"
    /\ \E c \in CodeInputs : lookup' = [pc |-> "awaiting", code |-> c]
    /\ UNCHANGED <<code, name, price, cart, total, lastEvent, addCount,
                   firstAdded, purchase>>

\* fetchProductByCode from the response on (lines 30-32)
FetchSettle ==
    /\ lookup.pc = "awaiting"
    /\ \E res \in LookupResponses :
          lookup' = [pc |-> "settled", code |-> lookup.code, res |-> res,
                     outcome |-> FetchOutcome(res)]
    /\ UNCHANGED <<code, name, price, cart, total, lastEvent, addCount,
                   firstAdded, purchase>>

LookupNext == FetchCall \/ FetchSettle

LookupSpec == Init /\ [][LookupNext]_vars

---------------------------------------------------------------------------
(* Properties *)

CartCodes == [i \in 1..Len(cart) |-> cart[i].code]

\* a step of handleAdd, whether the guard of line 57 returns or not
AddStep == lastEvent' = "handleAdd" /\ UNCHANGED <<purchase, lookup>>

StagedEmpty == code = EmptyStr /\ name = EmptyStr /\ price = EmptyStr

\* C1: no two lines of the cart have the same code.
NoDuplicateCodes ==
    \A i, j \in 1..Len(cart) : cart[i].code = cart[j].code => i = j

\* two lines, one of them the result of a repeated add
RepeatedAddMerged ==
    /\ Len(cart) = 2
    /\ \E i \in 1..Len(cart) : addCount[cart[i].code] >= 2

\* C2: for every code, the qty of its line is the number of handleAdd calls
\* with that code that passed the guard; a code never added has no line.
QtyCountsAdds ==
    /\ \A i \in 1..Len(cart) : cart[i].qty = addCount[cart[i].code]
    /\ \A c \in CodeInputs :
          addCount[c] > 0 <=> \E i \in 1..Len(cart) : cart[i].code = c

\* one code added three times and another added once
ThreeAddsAndOne ==
    \E i, j \in 1..Len(cart) : cart[i].qty = 3 /\ cart[j].qty = 1

\* the sum of price * qty over the lines of c, taken from the last line back
RECURSIVE LineSum(_)
LineSum(c) ==
    IF Len(c) = 0 THEN Num(0)
    ELSE JsAdd(LineSum(SubSeq(c, 1, Len(c) - 1)),
               JsMul(c[Len(c)].price, Num(c[Len(c)].qty)))

\* C3: the displayed subtotal is the sum of price * qty over the lines of the
\* cart, 0 for the empty cart.
SubtotalIsSum == total = LineSum(cart)

\* a cart of two lines, one with qty above 1, and a positive subtotal
SubtotalOfMergedCart ==
    /\ Len(cart) = 2
    /\ \E i \in 1..Len(cart) : cart[i].qty >= 2
    /\ ~total.nan
    /\ total.v > 0

\* a string of digits: a non-negative integer
IsNonNegativeInteger(s) == Len(s) > 0 /\ \A i \in 1..Len(s) : IsDigit(s[i])

\* C4: handleAdd called while the name is empty, or while the price is empty,
\* non-numeric or negative, changes neither the cart nor the subtotal.
InvalidStagingIsNoOp ==
    [][(AddStep /\ (Len(name) = 0 \/ ~IsNonNegativeInteger(price)))
          => (cart' = cart /\ total' = total)]_vars

\* C5: the lines of the cart are in the order in which their codes were first
\* added.
FirstAddOrder == CartCodes = firstAdded

\* two lines, each merged into at least once
BothLinesMerged ==
    /\ Len(cart) = 2
    /\ cart[1].qty >= 2
    /\ cart[2].qty >= 2

\* C6: a handleAdd call that passes the guard with the code of an existing
\* line raises that line's qty by 1 and changes nothing else of the cart.
MergeOnlyIncrementsQty ==
    [][(AddStep /\ addCount' # addCount /\ Find(cart, code) # 0)
          => cart' = [cart EXCEPT ![Find(cart, code)].qty =
                                      cart[Find(cart, code)].qty + 1]]_vars

\* a line that was merged into before, and one more add of its code staged
\* with another name and another price
MergeWithOtherSnapshotStaged ==
    /\ Find(cart, code) # 0
    /\ cart[Find(cart, code)].qty >= 2
    /\ ~Falsy(name)
    /\ ~Falsy(price)
    /\ cart[Find(cart, code)].name # name
    /\ cart[Find(cart, code)].price # ParseInt(price)
    /\ AddsMade < MaxAdds

PurchaseFailed(o) == o.kind = "throw" \/ (o.kind = "return" /\ ~o.data.success)

\* C7: a purchase call that fails, by throwing on a non-2xx status or by
\* returning success = false, leaves every line of the cart as it was.
FailedPurchaseKeepsCart ==
    [][(purchase.pc = "awaiting" /\ purchase'.pc = "settled"
           /\ PurchaseFailed(purchase'.outcome))
          => cart' = cart]_vars

\* a purchase call that threw on a cart of two lines
PurchaseThrewOnTwoLines ==
    /\ purchase.pc = "settled"
    /\ purchase.outcome.kind = "throw"
    /\ Len(cart) = 2

\* C8: when a purchase call succeeds the cart is cleared and the subtotal is 0.
SuccessfulPurchaseClearsCart ==
    [][(purchase.pc = "awaiting" /\ purchase'.pc = "settled"
           /\ purchase'.outcome.kind = "return"
           /\ purchase'.outcome.data.success)
          => (cart' = <<>> /\ total' = Num(0))]_vars

\* C9: fetchProductByCode returns the product on a 2xx status with a product
\* body, returns null without throwing on a 2xx status with a null body, and
\* throws an error carrying the status on any other status.
LookupOutcomesDistinct ==
    lookup.pc = "settled" =>
        LET res == lookup.res
            out == lookup.outcome
            ok  == res.status >= 200 /\ res.status <= 299
        IN  /\ (ok /\ res.body # Null)
                  => (out.kind = "return" /\ out.data = res.body
                         /\ out.data.tag = "product")
            /\ (ok /\ res.body = Null)
                  => (out.kind = "return" /\ out.data = Null)
            /\ ~ok => (out.kind = "throw" /\ out.status = res.status)

\* a lookup that found no product
LookupReturnedNull ==
    /\ lookup.pc = "settled"
    /\ lookup.res.status = 200
    /\ lookup.res.body = Null
    /\ lookup.outcome.kind = "return"

\* C10: the staged code, name and price are empty at the start and after
\* every handleAdd call that passes the guard, appending or merging; a
\* handleAdd call that the guard rejects leaves them as they were.
StagedLifecycle ==
    /\ StagedEmpty
    /\ [][AddStep => IF addCount' # addCount
                     THEN StagedEmpty'
                     ELSE UNCHANGED <<code, name, price>>]_vars

\* the staged product is empty right after a merging add
StagedEmptyAfterMerge ==
    /\ lastEvent = "handleAdd"
    /\ StagedEmpty
    /\ Len(cart) = 1
    /\ cart[1].qty = 2

====
